---- MODULE Spec2Model ----
(***************************************************************************)
(* Model of the analyzer agent: the bottleneck identification of           *)
(* src/utils/trace-analyzer.ts (the priority-list findWorstBottleneck and  *)
(* findStackInTrace), the resolution pipeline and the retrying API helper  *)
(* of src/analysis-controller.ts, and the script directory of              *)
(* src/browser-controller.ts.                                              *)
(*                                                                         *)
(* Optional JavaScript values (a field that may be undefined or null) are  *)
(* sequences of length at most one: <<>> is the absent value, <<v>> is v.  *)
(* Objects that the code compares by identity (trace events) are named by  *)
(* their index in traceEvents; index 0 is the literal { dur: 0 } that the  *)
(* reduce calls start from.                                                *)
(***************************************************************************)
EXTENDS Integers, Sequences, FiniteSets, TLC

VARIABLES
    traceEvents,   \* traceData.traceEvents, the parsed trace document
    bottleneck,    \* <<>> before findWorstBottleneck returns, then <<record>>
    sel,           \* which events findWorstBottleneck picked (indices)
    pc,            \* position of analyzeTraceFile
    run,           \* locals of analyzeTraceFile and commands it has sent
    calls,         \* resolveSourceLocation calls of the run, in order
    scriptMap,     \* PersistentAgent.scriptMap: url -> scriptId
    parsed,        \* Debugger.scriptParsed notifications delivered so far
    found,         \* the last directory lookup: <<>> or <<[url, scriptId]>>
    api,           \* state of one makeApiCall invocation
    session,       \* launch() calls on the agent and where the last one fell
    stop,          \* state of one stopTrace call and of trace.json
    server         \* the requests the Express server has accepted, in order

vars == <<traceEvents, bottleneck, sel, pc, run, calls, scriptMap, parsed, found, api,
          session, stop, server>>

----------------------------------------------------------------------------
(* Bounds *)

MaxEvents == 3          \* events in a trace document (SpecTrace)
MaxRunEvents == 2       \* events in the trace file of a pipeline run
MaxParsed == 4          \* scriptParsed notifications on one agent
MaxLaunches == 2        \* launch() calls on one agent
MaxChunks == 3          \* chunks of a trace stream
MaxNestedEvents == 4    \* events in a trace document (SpecNested)
MaxRequests == 3        \* requests the server accepts

----------------------------------------------------------------------------
(* Optional values *)

None == <<>>
Some(v) == <<v>>
IsSome(o) == o # <<>>
Val(o) == o[1]

----------------------------------------------------------------------------
(* Trace events *)

LongTaskThreshold == 50000

\* Variant of the list with the names in the opposite order.
candidateEventNamesReversed == <<"FunctionCall", "RunMicrotasks", "Animation Frame Fired">>

candidateEventNames == <<"Animation Frame Fired", "RunMicrotasks", "FunctionCall">>

\* event.cat?.includes("devtools.timeline"): a substring test on the
\* comma-joined category string; absent cat gives undefined (falsy).
CatIncludesTimeline(cat) ==
    /\ IsSome(cat)
    /\ Val(cat) \in {"devtools.timeline",
                     "disabled-by-default-devtools.timeline",
                     "devtools.timeline,v8.execute"}

Data(url, line, col) ==
    [url |-> url, lineNumber |-> line, columnNumber |-> col,
     scriptId |-> Some("7"), functionName |-> Some("tick")]

NoArgs == None
ArgsNoData == Some([data |-> None])
ArgsLoc(url, line, col) == Some([data |-> Some(Data(Some(url), Some(line), Some(col)))])
ArgsNoUrl == Some([data |-> Some(Data(None, Some(3), Some(2)))])
ArgsNoLine == Some([data |-> Some(Data(Some("app.js"), None, Some(2)))])

Ev(name, ph, cat, ts, dur, pid, tid, args) ==
    [name |-> name, ph |-> ph, cat |-> cat, ts |-> ts, dur |-> dur,
     pid |-> pid, tid |-> tid, args |-> args]

Timeline == Some("devtools.timeline")

\* Events shaped like top-level tasks: around the 50 ms threshold, with the
\* phase and the category varied, on two threads.
TaskEvents ==
    { Ev("RunTask", "X", Timeline, 0, d, 1, 1, NoArgs) : d \in {40000, 50000, 50001, 60500} }
    \cup { Ev("RunTask", "X", Some("disabled-by-default-devtools.timeline"), 0, 60500, 1, 2, NoArgs),
           Ev("RunTask", "I", Timeline, 0, 60500, 1, 1, NoArgs),
           Ev("RunTask", "X", Some("v8.execute"), 0, 60500, 1, 1, NoArgs),
           Ev("RunTask", "X", None, 0, 60500, 1, 1, NoArgs) }

\* Events carrying one of the candidate names.
NestedEvents ==
    { Ev("FunctionCall", "X", Timeline, 0, 20500, 1, 1, ArgsLoc("app.js", 9, 4)),
      Ev("FunctionCall", "X", Timeline, 0, 10000, 1, 1, ArgsLoc("lib.js", 0, 0)),
      Ev("FunctionCall", "X", Timeline, 0, 20500, 1, 1, ArgsNoUrl),
      Ev("FunctionCall", "X", Timeline, 30000, 40000, 1, 1, ArgsLoc("app.js", 9, 4)),
      Ev("FunctionCall", "X", Timeline, 0, 0, 1, 1, ArgsLoc("app.js", 9, 4)),
      Ev("FunctionCall", "X", Timeline, 0, 20500, 1, 2, ArgsLoc("lib.js", 0, 0)),
      Ev("FunctionCall", "X", Timeline, 0, 30000, 2, 1, ArgsLoc("lib.js", 0, 0)),
      Ev("FunctionCall", "X", Timeline, 0, 60500, 1, 1, ArgsLoc("app.js", 9, 4)),
      Ev("FunctionCall", "X", Timeline, 0, 10000, 1, 1, NoArgs),
      Ev("Animation Frame Fired", "X", Timeline, 0, 40000, 1, 1, NoArgs),
      Ev("Animation Frame Fired", "X", Timeline, 0, 40000, 1, 1, ArgsLoc("app.js", 9, 4)),
      Ev("Animation Frame Fired", "X", Timeline, 0, 20500, 1, 1, ArgsNoData),
      Ev("RunMicrotasks", "X", None, 0, 20500, 1, 1, NoArgs),
      Ev("RunMicrotasks", "X", Timeline, 30000, 30000, 1, 1, ArgsNoLine) }

EventUniverse == TaskEvents \cup NestedEvents

RECURSIVE SeqsUpTo(_, _)
SeqsUpTo(S, n) ==
    IF n = 0 THEN { <<>> }
    ELSE LET shorter == SeqsUpTo(S, n - 1)
         IN  shorter \cup { Append(s, e) : s \in { t \in shorter : Len(t) = n - 1 }, e \in S }

----------------------------------------------------------------------------
(* findWorstBottleneck and findStackInTrace *)

NoEvent == 0   \* the { dur: 0 } literal

DurOf(te, i) == IF i = NoEvent THEN 0 ELSE te[i].dur

Indices(te) == [i \in 1..Len(te) |-> i]

\* Variant of the reduce that lets a later event of equal dur win.
RECURSIVE ReduceMaxLast(_, _, _)
ReduceMaxLast(te, idxs, max) ==
    IF idxs = <<>> THEN max
    ELSE ReduceMaxLast(te, Tail(idxs),
                       IF DurOf(te, Head(idxs)) >= DurOf(te, max) /\ DurOf(te, Head(idxs)) > 0
                       THEN Head(idxs) ELSE max)

\* xs.reduce((max, event) => (event.dur > max.dur ? event : max), start)
RECURSIVE ReduceMax(_, _, _)
ReduceMax(te, idxs, max) ==
    IF idxs = <<>> THEN max
    ELSE ReduceMax(te, Tail(idxs),
                   IF DurOf(te, Head(idxs)) > DurOf(te, max) THEN Head(idxs) ELSE max)

\* Variant of the filter that admits a task of exactly 50 ms.
IsLongTaskInclusive(e) ==
    /\ e.ph = "X"
    /\ e.dur >= LongTaskThreshold
    /\ CatIncludesTimeline(e.cat)

IsLongTask(e) ==
    /\ e.ph = "X"
    /\ e.dur > LongTaskThreshold
    /\ CatIncludesTimeline(e.cat)

LongestTask(te) ==
    ReduceMax(te, SelectSeq(Indices(te), LAMBDA i : IsLongTask(te[i])), NoEvent)

\* Variant of the filter that looks only at the events after the task in
\* the array.
IsChildNamedAfterTask(te, task, name, i) ==
    /\ te[i].name = name
    /\ i > task
    /\ te[i].ts >= te[task].ts
    /\ te[i].ts < te[task].ts + te[task].dur
    /\ te[i].pid = te[task].pid
    /\ te[i].tid = te[task].tid

\* Step 2: the filter of one pass of the candidate-name loop.
IsChildNamed(te, task, name, i) ==
    /\ te[i].name = name
    /\ te[i].ts >= te[task].ts
    /\ te[i].ts < te[task].ts + te[task].dur
    /\ te[i].pid = te[task].pid
    /\ te[i].tid = te[task].tid

\* Variant of the loop that stops at the first name that has a child.
RECURSIVE WorstChildFirstNamed(_, _, _, _)
WorstChildFirstNamed(te, task, k, worst) ==
    IF k > Len(candidateEventNames) THEN worst
    ELSE LET childEvents == SelectSeq(Indices(te),
                               LAMBDA i : IsChildNamed(te, task, candidateEventNames[k], i))
             longestChild == ReduceMax(te, childEvents, NoEvent)
         IN  IF DurOf(te, longestChild) > 0 THEN longestChild
             ELSE WorstChildFirstNamed(te, task, k + 1, worst)

\* One pass of the loop over candidateEventNames, from the k-th name on.
RECURSIVE WorstChildFrom(_, _, _, _)
WorstChildFrom(te, task, k, worst) ==
    IF k > Len(candidateEventNames) THEN worst
    ELSE LET childEvents == SelectSeq(Indices(te),
                               LAMBDA i : IsChildNamed(te, task, candidateEventNames[k], i))
             longestChild == ReduceMax(te, childEvents, NoEvent)
         IN  WorstChildFrom(te, task, k + 1,
                 IF childEvents # <<>> /\ DurOf(te, longestChild) > DurOf(te, worst)
                 THEN longestChild ELSE worst)

WorstChildEvent(te, task) == WorstChildFrom(te, task, 1, NoEvent)

\* args?.data
DataOf(e) == IF IsSome(e.args) THEN Val(e.args).data ELSE None

\* data && data.url && data.lineNumber != null && data.columnNumber != null
HasLocation(data) ==
    /\ IsSome(data)
    /\ IsSome(Val(data).url) /\ Val(Val(data).url) # ""
    /\ IsSome(Val(data).lineNumber)
    /\ IsSome(Val(data).columnNumber)

\* Variant that keeps the 0-indexed trace value.
KeepZeroIndexed(n) == n

\* The trace gives 0-indexed line/column; the frame is 1-indexed.
ToOneIndexed(n) == n + 1

FrameOf(data) ==
    [scriptId |-> Val(data).scriptId,
     url |-> Val(Val(data).url),
     lineNumber |-> ToOneIndexed(Val(Val(data).lineNumber)),
     columnNumber |-> ToOneIndexed(Val(Val(data).columnNumber))]

IsContainedIn(te, parent, i) ==
    /\ te[i].ts >= te[parent].ts
    /\ te[i].ts + te[i].dur <= te[parent].ts + te[parent].dur
    /\ te[i].pid = te[parent].pid
    /\ te[i].tid = te[parent].tid
    /\ i # parent

\* Variant that takes the longest nested FunctionCall among those that
\* carry a location.
FrameSourceAmongLocated(te, parent) ==
    IF te[parent].name = "FunctionCall" /\ HasLocation(DataOf(te[parent]))
    THEN parent
    ELSE LET children == SelectSeq(Indices(te), LAMBDA i : IsContainedIn(te, parent, i))
             located == SelectSeq(children, LAMBDA i : te[i].name = "FunctionCall"
                                                       /\ HasLocation(DataOf(te[i])))
         IN  ReduceMax(te, located, NoEvent)

\* The event whose args.data findStackInTrace turns into the frame, or
\* NoEvent when it returns null.
FrameSource(te, parent) ==
    IF te[parent].name = "FunctionCall" /\ HasLocation(DataOf(te[parent]))
    THEN parent
    ELSE LET children == SelectSeq(Indices(te), LAMBDA i : IsContainedIn(te, parent, i))
             functionCalls == SelectSeq(children, LAMBDA i : te[i].name = "FunctionCall")
             longestFunctionCall == ReduceMax(te, functionCalls, NoEvent)
         IN  IF functionCalls = <<>> THEN NoEvent
             ELSE IF DurOf(te, longestFunctionCall) > 0
                     /\ HasLocation(DataOf(te[longestFunctionCall]))
                  THEN longestFunctionCall
                  ELSE NoEvent

findStackInTrace(te, parent) ==
    LET src == FrameSource(te, parent)
    IN  IF src = NoEvent THEN None ELSE Some(FrameOf(DataOf(te[src])))

\* Variant that rounds the duration down to whole milliseconds.
MsWhole(dur) == [whole |-> dur \div 1000, frac |-> 0]

\* dur / 1000: milliseconds with the microsecond remainder as the fraction.
\* This is the quotient in the rationals; the code's value is the double
\* nearest to it, which the model does not round.
Ms(dur) == [whole |-> dur \div 1000, frac |-> dur % 1000]

FunctionNameOf(e) ==
    LET d == DataOf(e)
    IN  IF IsSome(d) /\ IsSome(Val(d).functionName) /\ Val(Val(d).functionName) # ""
        THEN Val(Val(d).functionName) ELSE "N/A"

Summary(text, ms, names, event) ==
    [text |-> text, ms |-> ms, names |-> names, event |-> event]

NoLongTasksText == "No long tasks were found. The trace appears to be clean."
NoChildEventsText == "A long task of ${ms}ms was found, but it contained no specific child events to analyze (looked for: ${names})."
NoStackFrameText == "A bottleneck event (${event}) was found, but no stack frame could be located within it."

Record(summary, eventName, category, duration_ms, stackFrame, details) ==
    [summary |-> summary, eventName |-> eventName, category |-> category,
     duration_ms |-> duration_ms, stackFrame |-> stackFrame, details |-> details,
     originalSourceLocation |-> None]

Details(te, task, child, withBottleneckDuration) ==
    [parent_task_duration_ms |-> Ms(te[task].dur),
     bottleneck_duration_ms |-> IF withBottleneckDuration THEN Some(Ms(te[child].dur)) ELSE None,
     function_name |-> FunctionNameOf(te[child]),
     original_args |-> te[child].args]

\* The events the function settles on: the longest task, the bottleneck
\* event of step 2 and the event the frame is read from.
Selection(te) ==
    LET task == LongestTask(te)
        child == IF task = NoEvent THEN NoEvent ELSE WorstChildEvent(te, task)
        src == IF child = NoEvent THEN NoEvent ELSE FrameSource(te, child)
    IN  [task |-> task, child |-> child, src |-> src]

findWorstBottleneck(te) ==
    LET longestTask == LongestTask(te)
        worstChildEvent == WorstChildEvent(te, longestTask)
        stackFrame == findStackInTrace(te, worstChildEvent)
    IN  IF DurOf(te, longestTask) = 0
        THEN Record(Some(Summary(NoLongTasksText, None, <<>>, None)),
                    None, None, None, None, None)
        ELSE IF DurOf(te, worstChildEvent) = 0
        THEN Record(Some(Summary(NoChildEventsText, Some(Ms(te[longestTask].dur)),
                                 candidateEventNames, None)),
                    None, None, None, None, None)
        ELSE IF ~IsSome(stackFrame)
        THEN Record(Some(Summary(NoStackFrameText, None, <<>>, Some(te[worstChildEvent].name))),
                    None, None, None, None,
                    Some(Details(te, longestTask, worstChildEvent, TRUE)))
        ELSE Record(None,
                    Some(<<te[longestTask].name, " > ", te[worstChildEvent].name>>),
                    Some(te[worstChildEvent].cat),
                    Some(Ms(te[worstChildEvent].dur)),
                    stackFrame,
                    Some(Details(te, longestTask, worstChildEvent, FALSE)))

NoSelection == [task |-> NoEvent, child |-> NoEvent, src |-> NoEvent]

\* Variant in which an optional chain is a plain member access.
AccessRaisesUnchained(receiver, guarded) == ~IsSome(receiver)

\* receiver.member on a receiver that may be absent: a TypeError, unless the
\* access is an optional chain (`?.`) or stands behind a test of the receiver.
AccessRaises(receiver, guarded) == ~IsSome(receiver) /\ ~guarded

\* Whether findWorstBottleneck(te) raises: the member accesses that it and
\* findStackInTrace make on the optional fields of the events they reach,
\* each with the guard the code gives it.
findWorstBottleneckRaises(te) ==
    LET s == Selection(te)
        children == IF s.child = NoEvent THEN <<>>
                    ELSE SelectSeq(Indices(te), LAMBDA i : IsContainedIn(te, s.child, i))
        functionCalls == SelectSeq(children, LAMBDA i : te[i].name = "FunctionCall")
        longestFunctionCall == ReduceMax(te, functionCalls, NoEvent)
    IN  \/ \E i \in 1..Len(te) :          \* event.cat?.includes("devtools.timeline")
              /\ te[i].ph = "X"
              /\ te[i].dur > LongTaskThreshold
              /\ AccessRaises(te[i].cat, TRUE)
        \/ /\ s.child # NoEvent
           /\ \/ AccessRaises(te[s.child].args, TRUE)        \* parentEvent.args?.data
              \/ AccessRaises(DataOf(te[s.child]), TRUE)     \* parentEventData && ...url, data?.functionName
        \/ /\ DurOf(te, longestFunctionCall) > 0
           /\ s.src # s.child
           /\ \/ AccessRaises(te[longestFunctionCall].args, TRUE)       \* longestFunctionCall.args?.data
              \/ AccessRaises(DataOf(te[longestFunctionCall]), TRUE)    \* eventData && eventData.url

----------------------------------------------------------------------------
(* SpecTrace: findWorstBottleneck applied to every bounded trace document *)

\* scriptId and fullSourceMapUrl are the locals of that name, sent lists the
\* scriptIds of the Debugger.getScriptSource commands, handed is the
\* argument of getAnalysis and report what it returned without a model call.
NoRun ==
    [scriptId |-> None, fullSourceMapUrl |-> None, sent |-> <<>>,
     handed |-> None, report |-> None]

EmptyMap == [u \in {} |-> ""]

\* count is the number of launch() calls made, since the number of
\* notifications that had been delivered when the last one was made.
FirstSession == [count |-> 1, since |-> 0]

\* trace.json: what it holds ("previous" for an earlier trace, "{}", or
\* the chunks of this stream that have reached the disk).
PreviousFile == [doc |-> "previous", chunks |-> 0]

\* pc is the position of stopTrace, endReply the state of the Tracing.end
\* command, total the chunks of the stream (0 without handle), written the
\* chunks handed to writeStream.write, opened and flushed what the file
\* system has done with them, closeSent whether IO.close was sent, seen
\* what a read of trace.json made after the resolution got.
IdleStop ==
    [pc |-> "idle", endReply |-> "none", total |-> 0, written |-> 0,
     opened |-> FALSE, flushed |-> 0, ended |-> FALSE, closeSent |-> FALSE,
     file |-> PreviousFile, seen |-> None]

\* makeApiCall: attempts is the local of that name, log the history of the
\* call, error what it threw, value the attempt whose operation gave the
\* returned value; inflight are the attempts whose operation was still
\* pending when their timer won the race, late the settlements of such
\* operations, each with the attempt it belongs to and the position and
\* the attempts counter of the call at that moment.
\* No request has reached the server.
NoRequests == <<>>

IdleApi ==
    [pc |-> "idle", attempts |-> 0, log |-> <<>>, error |-> None,
     value |-> None, inflight |-> {}, late |-> <<>>]

InitTrace ==
    /\ traceEvents \in SeqsUpTo(EventUniverse, MaxEvents)
    /\ bottleneck = None
    /\ sel = NoSelection
    /\ pc = "loaded"
    /\ run = NoRun
    /\ calls = <<>>
    /\ scriptMap = EmptyMap
    /\ parsed = <<>>
    /\ found = None
    /\ api = IdleApi
    /\ session = FirstSession
    /\ server = NoRequests
    /\ stop = IdleStop

Identify ==
    /\ pc = "loaded"
    /\ IF findWorstBottleneckRaises(traceEvents)
       THEN /\ pc' = "failed"
            /\ UNCHANGED <<bottleneck, sel>>
       ELSE /\ bottleneck' = Some(findWorstBottleneck(traceEvents))
            /\ sel' = Selection(traceEvents)
            /\ pc' = "identified"
    /\ UNCHANGED <<server, session, stop, traceEvents, run, calls, scriptMap, parsed, found, api>>

\* Documents for the stack extraction: a long task, candidates without a
\* location of their own and FunctionCall events inside and outside them.
NestedUniverse ==
    { Ev("RunTask", "X", Timeline, 0, 60500, 1, 1, NoArgs),
      Ev("Animation Frame Fired", "X", Timeline, 0, 40000, 1, 1, NoArgs),
      Ev("RunMicrotasks", "X", Timeline, 0, 40000, 1, 1, ArgsNoLine),
      Ev("FunctionCall", "X", Timeline, 0, 20500, 1, 1, ArgsLoc("app.js", 9, 4)),
      Ev("FunctionCall", "X", Timeline, 0, 20500, 1, 1, ArgsNoUrl),
      Ev("FunctionCall", "X", Timeline, 0, 10000, 1, 1, ArgsLoc("lib.js", 0, 0)),
      Ev("FunctionCall", "X", Timeline, 0, 0, 1, 1, ArgsLoc("app.js", 9, 4)),
      Ev("FunctionCall", "X", Timeline, 30000, 30000, 1, 1, ArgsLoc("app.js", 9, 4)),
      Ev("FunctionCall", "X", Timeline, 0, 20500, 1, 2, ArgsLoc("lib.js", 0, 0)) }

InitNested ==
    /\ traceEvents \in SeqsUpTo(NestedUniverse, MaxNestedEvents)
    /\ bottleneck = None
    /\ sel = NoSelection
    /\ pc = "loaded"
    /\ run = NoRun
    /\ calls = <<>>
    /\ scriptMap = EmptyMap
    /\ parsed = <<>>
    /\ found = None
    /\ api = IdleApi
    /\ session = FirstSession
    /\ server = NoRequests
    /\ stop = IdleStop

NextTrace == Identify

SpecTrace == InitTrace /\ [][NextTrace]_vars

SpecNested == InitNested /\ [][NextTrace]_vars

----------------------------------------------------------------------------
(* SpecAnalyze: one run of analyzeTraceFile on a launched agent, up to the  *)
(* first attempt of the model call that getAnalysis makes                  *)

\* Variant of the retry loop's bound that tries one more line.
FallbackLinesPlusOne == 5 + 1

FallbackLines == 5

ScriptUrls == {"app.js", "lib.js"}

\* Trace files of a run: a long task and candidates with and without a
\* location of their own.
RunUniverse ==
    { Ev("RunTask", "X", Timeline, 0, 60500, 1, 1, NoArgs),
      Ev("FunctionCall", "X", Timeline, 0, 20500, 1, 1, ArgsLoc("app.js", 9, 4)),
      Ev("FunctionCall", "X", Timeline, 0, 10000, 1, 1, ArgsLoc("lib.js", 0, 0)),
      Ev("Animation Frame Fired", "X", Timeline, 0, 40000, 1, 1, NoArgs) }

\* Directories a launched agent can hold when the run starts.
RunScriptMaps ==
    { EmptyMap,
      [u \in {"app.js"} |-> "12"],
      [u \in ScriptUrls |-> IF u = "app.js" THEN "12" ELSE "13"] }

\* What originalPositionFor can answer with when it finds a mapping.
Positions ==
    { [source |-> "src/app.ts", line |-> 120, column |-> 8],
      [source |-> "src/lib.ts", line |-> 3, column |-> 0] }

Error(message, status) == [message |-> message, status |-> status]

\* What axios.get can be rejected with: a response with status 503 and one
\* with status 404.
FetchErrors ==
    { Error("Request failed with status code 503", Some(503)),
      Error("Request failed with status code 404", Some(404)) }

\* Variant of the lookup that falls back to the URL as the script's id.
LookupOrUrl(map, url) ==
    IF url \in DOMAIN map /\ map[url] # "" THEN Some(map[url]) ELSE Some(url)

\* this.scriptMap.get(scriptUrl), absent when the entry is missing or falsy
Lookup(map, url) ==
    IF url \in DOMAIN map /\ map[url] # "" THEN Some(map[url]) ELSE None

InitAnalyze ==
    /\ traceEvents \in SeqsUpTo(RunUniverse, MaxRunEvents)
    /\ bottleneck = None
    /\ sel = NoSelection
    /\ pc = "start"
    /\ run = NoRun
    /\ calls = <<>>
    /\ scriptMap \in RunScriptMaps
    /\ parsed = <<>>
    /\ found = None
    /\ api = IdleApi
    /\ session = FirstSession
    /\ server = NoRequests
    /\ stop = IdleStop

\* A call of resolveSourceLocation(sourceMapUrl, line, column): axios.get is
\* sent when the call starts, fetched tells that it gave the document and
\* fetchError what it was rejected with; query is the argument of
\* originalPositionFor once it has been called, result is what the call
\* returned, consumer is "none" until a SourceMapConsumer exists, then
\* "live" until consumer.destroy() makes it "destroyed".
NewCall(line, column) ==
    [line |-> line, column |-> column, fetched |-> FALSE, fetchError |-> None,
     query |-> None, result |-> None, returned |-> FALSE, consumer |-> "none"]

\* Variant that asks the agent for the source map before it tests the
\* record for a stackFrame (the url is then undefined, here "").
AnalyzeStartLookupFirst ==
    /\ pc = "start"
    /\ LET b == findWorstBottleneck(traceEvents)
           url == IF IsSome(b.stackFrame) THEN Val(b.stackFrame).url ELSE ""
           scriptId == Lookup(scriptMap, url)
       IN  /\ bottleneck' = Some(b)
           /\ sel' = Selection(traceEvents)
           /\ found' = Some([url |-> url, scriptId |-> scriptId])
           /\ run' = [run EXCEPT !.scriptId = scriptId,
                                  !.sent = IF IsSome(scriptId)
                                           THEN Append(@, Val(scriptId)) ELSE @]
           /\ pc' = IF IsSome(scriptId) THEN "getScriptSource" ELSE "summarize"
    /\ UNCHANGED <<server, session, stop, traceEvents, calls, scriptMap, parsed, api>>

\* trace.json read and parsed, findWorstBottleneck, and for a record with a
\* stackFrame the synchronous part of agent.getSourceMapUrl(url).
AnalyzeStart ==
    /\ pc = "start"
    /\ IF findWorstBottleneckRaises(traceEvents)
       THEN /\ pc' = "failed"
            /\ UNCHANGED <<bottleneck, sel, found, run>>
       ELSE LET b == findWorstBottleneck(traceEvents)
            IN  /\ bottleneck' = Some(b)
                /\ sel' = Selection(traceEvents)
                /\ IF IsSome(b.stackFrame)
                   THEN LET url == Val(b.stackFrame).url
                            scriptId == Lookup(scriptMap, url)
                        IN  /\ found' = Some([url |-> url, scriptId |-> scriptId])
                            /\ run' = [run EXCEPT !.scriptId = scriptId,
                                                   !.sent = IF IsSome(scriptId)
                                                            THEN Append(@, Val(scriptId)) ELSE @]
                            /\ pc' = IF IsSome(scriptId) THEN "getScriptSource" ELSE "summarize"
                   ELSE /\ pc' = "summarize"
                        /\ UNCHANGED <<found, run>>
    /\ UNCHANGED <<server, session, stop, traceEvents, calls, scriptMap, parsed, api>>

\* Variant of the reply's handling that drops the directory entry of a script
\* whose source cannot be read.
GetScriptSourceReplyForgetting(outcome) ==
    /\ pc = "getScriptSource"
    /\ IF outcome \in {"sourceMapURL", "comment"}
       THEN LET frame == Val(Val(bottleneck).stackFrame)
            IN  /\ run' = [run EXCEPT !.fullSourceMapUrl = Some(<<frame.url, "app.js.map">>)]
                /\ calls' = Append(calls, NewCall(frame.lineNumber, frame.columnNumber))
                /\ pc' = "fetch"
                /\ UNCHANGED scriptMap
       ELSE /\ pc' = "summarize"
            /\ scriptMap' = [u \in DOMAIN scriptMap \ {Val(found).url} |-> scriptMap[u]]
            /\ UNCHANGED <<run, calls>>
    /\ UNCHANGED <<server, session, stop, traceEvents, bottleneck, sel, parsed, found, api>>

\* The reply to Debugger.getScriptSource: an error, a response without a
\* source-map reference, or one with a reference (the sourceMapURL property
\* or the sourceMappingURL comment), resolved against the script's URL.
\* With a reference the first resolveSourceLocation call starts.
GetScriptSourceReply(outcome) ==
    /\ pc = "getScriptSource"
    /\ IF outcome \in {"sourceMapURL", "comment"}
       THEN LET frame == Val(Val(bottleneck).stackFrame)
            IN  /\ run' = [run EXCEPT !.fullSourceMapUrl = Some(<<frame.url, "app.js.map">>)]
                /\ calls' = Append(calls, NewCall(frame.lineNumber, frame.columnNumber))
                /\ pc' = "fetch"
       ELSE /\ pc' = "summarize"
            /\ UNCHANGED <<run, calls>>
    /\ UNCHANGED <<server, session, stop, traceEvents, bottleneck, sel, scriptMap, parsed, found, api>>

\* Variant of the retry loop that raises when every line failed.
AfterResolveRaising(cs, result) ==
    LET n == Len(cs)
        returned == [cs EXCEPT ![n].result = result, ![n].returned = TRUE]
    IN  IF ~IsSome(result) /\ n <= 5
        THEN /\ calls' = Append(returned, NewCall(n, Val(Val(bottleneck).stackFrame).columnNumber))
             /\ pc' = "fetch"
             /\ UNCHANGED bottleneck
        ELSE /\ calls' = returned
             /\ bottleneck' = Some([Val(bottleneck) EXCEPT !.originalSourceLocation = result])
             /\ pc' = IF IsSome(result) THEN "summarize" ELSE "failed"

\* Variant of the retry loop without the break on success.
AfterResolveNoBreak(cs, result) ==
    LET n == Len(cs)
        returned == [cs EXCEPT ![n].result = result, ![n].returned = TRUE]
    IN  IF n <= 5 /\ (n > 1 \/ ~IsSome(result))
        THEN /\ calls' = Append(returned, NewCall(n, Val(Val(bottleneck).stackFrame).columnNumber))
             /\ pc' = "fetch"
             /\ UNCHANGED bottleneck
        ELSE /\ calls' = returned
             /\ bottleneck' = Some([Val(bottleneck) EXCEPT !.originalSourceLocation = result])
             /\ pc' = "summarize"

\* What follows the return of a resolveSourceLocation call: the `if
\* (!originalLocation)` test and the retry loop over the lines 1..5.
AfterResolve(cs, result) ==
    LET n == Len(cs)
        returned == [cs EXCEPT ![n].result = result, ![n].returned = TRUE]
        i == n   \* the loop variable of the next pass
    IN  IF ~IsSome(result) /\ i <= FallbackLines
        THEN /\ calls' = Append(returned, NewCall(i, Val(Val(bottleneck).stackFrame).columnNumber))
             /\ pc' = "fetch"
             /\ UNCHANGED bottleneck
        ELSE /\ calls' = returned
             /\ bottleneck' = Some([Val(bottleneck) EXCEPT !.originalSourceLocation = result])
             /\ pc' = "summarize"

\* axios.get(sourceMapUrl) settles: with the document, or with an error
\* that the catch block of resolveSourceLocation turns into null.
FetchSettled(outcome) ==
    /\ pc = "fetch"
    /\ IF ~IsSome(outcome)
       THEN /\ calls' = [calls EXCEPT ![Len(calls)].fetched = TRUE]
            /\ pc' = "consumer"
            /\ UNCHANGED bottleneck
       ELSE AfterResolve([calls EXCEPT ![Len(calls)].fetchError = outcome], None)
    /\ UNCHANGED <<server, session, stop, traceEvents, sel, run, scriptMap, parsed, found, api>>

\* new SourceMapConsumer(sourceMap) settles: it rejects a malformed map
\* (no consumer exists then); otherwise originalPositionFor({ line, column })
\* is called. It answers with a position (destroy, return it), with nulls
\* (eachMapping, destroy, return null), or it throws; eachMapping can throw
\* as well. An exception lands in the catch block, which returns null.
ConsumerSettled(outcome, position) ==
    /\ pc = "consumer"
    /\ LET n == Len(calls)
           queried == [calls EXCEPT ![n].query =
                           Some([line |-> calls[n].line, column |-> calls[n].column]),
                                    ![n].consumer = "live"]
           destroyed == [queried EXCEPT ![n].consumer = "destroyed"]
       IN  CASE outcome = "malformed" -> AfterResolve(calls, None)
             [] outcome = "nulls" -> AfterResolve(destroyed, None)
             [] outcome = "hit" -> AfterResolve(destroyed, Some(position))
             [] outcome = "queryThrew" -> AfterResolve(queried, None)
             [] outcome = "iterationThrew" -> AfterResolve(queried, None)
    /\ UNCHANGED <<server, session, stop, traceEvents, sel, run, scriptMap, parsed, found, api>>

\* `${source}:${line}:${column}` or the fixed text
PromptLocation(location) ==
    IF IsSome(location)
    THEN <<Val(location).source, ":", Val(location).line, ":", Val(location).column>>
    ELSE <<"Source map location not resolved">>

\* Variant that skips only the records that carry nothing but a summary.
GetAnalysisOfDetails ==
    /\ pc = "summarize"
    /\ LET b == Val(bottleneck)
       IN  IF IsSome(b.summary) /\ b.details = None
           THEN /\ run' = [run EXCEPT !.handed = Some(b),
                                      !.report = Some(<<"Analysis skipped: ", Val(b.summary)>>)]
                /\ pc' = "done"
                /\ UNCHANGED api
           ELSE /\ run' = [run EXCEPT !.handed = Some(b)]
                /\ api' = [IdleApi EXCEPT !.pc = "racing",
                                          !.log = <<[e |-> "start", ms |-> 0, error |-> None]>>]
                /\ pc' = "analysis"
    /\ UNCHANGED <<server, session, stop, traceEvents, bottleneck, sel, calls, scriptMap, parsed, found>>

\* getAnalysis(bottleneck): a record with a summary is answered at once with
\* 'Analysis skipped'; for any other record the prompt is built and
\* makeApiCall starts its first attempt.
GetAnalysis ==
    /\ pc = "summarize"
    /\ LET b == Val(bottleneck)
       IN  IF IsSome(b.summary)
           THEN /\ run' = [run EXCEPT !.handed = Some(b),
                                      !.report = Some(<<"Analysis skipped: ", Val(b.summary)>>)]
                /\ pc' = "done"
                /\ UNCHANGED api
           ELSE /\ run' = [run EXCEPT !.handed = Some(b)]
                /\ api' = [IdleApi EXCEPT !.pc = "racing",
                                          !.log = <<[e |-> "start", ms |-> 0, error |-> None]>>]
                /\ pc' = "analysis"
    /\ UNCHANGED <<server, session, stop, traceEvents, bottleneck, sel, calls, scriptMap, parsed, found>>

NextAnalyze ==
    \/ AnalyzeStart
    \/ \E outcome \in {"error", "noReference", "sourceMapURL", "comment"} :
          GetScriptSourceReply(outcome)
    \/ \E outcome \in {None} \cup { Some(e) : e \in FetchErrors } : FetchSettled(outcome)
    \/ \E outcome \in {"malformed", "nulls", "hit", "queryThrew", "iterationThrew"},
          position \in Positions :
          ConsumerSettled(outcome, position)
    \/ GetAnalysis

SpecAnalyze == InitAnalyze /\ [][NextAnalyze]_vars

\* Trace files whose events lack optional fields: the category, args,
\* args.data, the url or the line of the location.
AbsentUniverse ==
    { Ev("RunTask", "X", Timeline, 0, 60500, 1, 1, NoArgs),
      Ev("RunTask", "X", None, 0, 60500, 1, 1, NoArgs),
      Ev("FunctionCall", "X", None, 0, 20500, 1, 1, ArgsLoc("app.js", 9, 4)),
      Ev("FunctionCall", "X", Timeline, 0, 30000, 1, 1, NoArgs),
      Ev("FunctionCall", "X", None, 0, 10000, 1, 1, ArgsNoData),
      Ev("FunctionCall", "X", Timeline, 0, 30000, 1, 1, ArgsNoUrl),
      Ev("Animation Frame Fired", "X", None, 0, 40000, 1, 1, ArgsNoLine) }

InitAbsent ==
    /\ traceEvents \in SeqsUpTo(AbsentUniverse, MaxRunEvents)
    /\ bottleneck = None
    /\ sel = NoSelection
    /\ pc = "start"
    /\ run = NoRun
    /\ calls = <<>>
    /\ scriptMap = [u \in {"app.js"} |-> "12"]
    /\ parsed = <<>>
    /\ found = None
    /\ api = IdleApi
    /\ session = FirstSession
    /\ server = NoRequests
    /\ stop = IdleStop

SpecAbsent == InitAbsent /\ [][NextAnalyze]_vars

----------------------------------------------------------------------------
(* SpecApi: one invocation of makeApiCall *)

maxRetries == 3

TimedOutMessage == "API call timed out"
FinalMessage == "API call failed after multiple retries."

\* What an attempt can fail with: the race's own timer, and rejections of
\* model.generateContent with and without a status.
AttemptErrors ==
    { Error(TimedOutMessage, None),
      Error("Service Unavailable", Some(503)),
      Error("[503 Service Unavailable] The model is overloaded", None),
      Error("[400 Bad Request] API key not valid", Some(400)),
      Error("fetch failed", None) }

\* error.message.includes("503")
MessageIncludes503(message) ==
    message \in {"[503 Service Unavailable] The model is overloaded",
                 "Request failed with status code 503"}

\* Variant of the catch block that retries after any error.
IsRetryableAlways(error) == error.message # ""

IsRetryable(error) ==
    \/ error.message = TimedOutMessage
    \/ error.status = Some(503)
    \/ (error.message # "" /\ MessageIncludes503(error.message))

RECURSIVE Pow2(_)
Pow2(n) == IF n = 0 THEN 1 ELSE 2 * Pow2(n - 1)

\* Variant of the backoff that starts at one second.
BackoffDelayFromOne(attempts) == Pow2(attempts - 1) * 1000

\* Math.pow(2, attempts) * 1000
BackoffDelay(attempts) == Pow2(attempts) * 1000

\* Entries of the call's history: the operation started, the race settled
\* (error absent on success), a backoff wait of ms milliseconds began.
Started == [e |-> "start", ms |-> 0, error |-> None]
Settled(error) == [e |-> "settle", ms |-> 0, error |-> error]
Waited(ms) == [e |-> "wait", ms |-> ms, error |-> None]

InitApi ==
    /\ traceEvents = <<>>
    /\ bottleneck = None
    /\ sel = NoSelection
    /\ pc = "summarize"
    /\ run = NoRun
    /\ calls = <<>>
    /\ scriptMap = EmptyMap
    /\ parsed = <<>>
    /\ found = None
    /\ api = IdleApi
    /\ session = FirstSession
    /\ server = NoRequests
    /\ stop = IdleStop

\* Variant of the loop test that admits one more attempt.
LoopTestInclusive(a) ==
    IF a.attempts <= maxRetries
    THEN [a EXCEPT !.pc = "racing", !.log = Append(a.log, Started)]
    ELSE [a EXCEPT !.pc = "thrown", !.error = Some(Error(FinalMessage, None))]

\* The loop test and, when it passes, the start of an attempt; the final
\* error when it fails.
LoopTest(a) ==
    IF a.attempts < maxRetries
    THEN [a EXCEPT !.pc = "racing", !.log = Append(a.log, Started)]
    ELSE [a EXCEPT !.pc = "thrown", !.error = Some(Error(FinalMessage, None))]

\* makeApiCall(prompt) is called: attempts = 0 and the first attempt starts.
ApiCall ==
    /\ api.pc = "idle"
    /\ api' = LoopTest([api EXCEPT !.attempts = 0])
    /\ UNCHANGED <<server, session, stop, traceEvents, bottleneck, sel, pc, run, calls, scriptMap, parsed, found>>

\* Variant of the catch block that throws the final error at once after the
\* last allowed attempt.
RaceSettledNoLastWait(outcome) ==
    /\ api.pc = "racing"
    /\ LET current == api.attempts + 1
           logged == [api EXCEPT !.log = Append(api.log, Settled(outcome)),
                                 !.inflight = IF outcome = Some(Error(TimedOutMessage, None))
                                              THEN @ \cup {current} ELSE @]
       IN  IF ~IsSome(outcome)
           THEN api' = [logged EXCEPT !.pc = "returned", !.value = Some(current)]
           ELSE IF IsRetryable(Val(outcome))
           THEN LET attempts == api.attempts + 1
                    delay == BackoffDelay(attempts)
                IN  IF attempts < maxRetries
                    THEN api' = [logged EXCEPT !.attempts = attempts,
                                               !.pc = "waiting",
                                               !.log = Append(logged.log, Waited(delay))]
                    ELSE api' = [logged EXCEPT !.attempts = attempts,
                                               !.pc = "thrown",
                                               !.error = Some(Error(FinalMessage, None))]
           ELSE api' = [logged EXCEPT !.pc = "thrown", !.error = outcome]
    /\ UNCHANGED <<server, session, stop, traceEvents, bottleneck, sel, pc, run, calls, scriptMap, parsed, found>>

\* Promise.race settles: with the operation's value, or with an error that
\* the catch block either retries after a backoff or throws again. When the
\* error is the one of the attempt's timer, the operation of the attempt is
\* still pending; nothing cancels it.
RaceSettled(outcome) ==
    /\ api.pc = "racing"
    /\ LET current == api.attempts + 1
           logged == [api EXCEPT !.log = Append(api.log, Settled(outcome)),
                                 !.inflight = IF outcome = Some(Error(TimedOutMessage, None))
                                              THEN @ \cup {current} ELSE @]
       IN  IF ~IsSome(outcome)
           THEN api' = [logged EXCEPT !.pc = "returned", !.value = Some(current)]
           ELSE IF IsRetryable(Val(outcome))
           THEN LET attempts == api.attempts + 1
                    delay == BackoffDelay(attempts)
                IN  api' = [logged EXCEPT !.attempts = attempts,
                                          !.pc = "waiting",
                                          !.log = Append(logged.log, Waited(delay))]
           ELSE api' = [logged EXCEPT !.pc = "thrown", !.error = outcome]
    /\ UNCHANGED <<server, session, stop, traceEvents, bottleneck, sel, pc, run, calls, scriptMap, parsed, found>>

\* The backoff timer fires and the loop goes round.
BackoffElapsed ==
    /\ api.pc = "waiting"
    /\ api' = LoopTest(api)
    /\ UNCHANGED <<server, session, stop, traceEvents, bottleneck, sel, pc, run, calls, scriptMap, parsed, found>>

LateEntry(k, ok) ==
    [attempt |-> k, ok |-> ok, during |-> api.pc, attempts |-> api.attempts]

\* Variant in which the value of an operation that settles late ends the
\* attempt that is racing.
LateSettleAdopted(k, ok) ==
    /\ k \in api.inflight
    /\ LET settled == [api EXCEPT !.inflight = @ \ {k}, !.late = Append(@, LateEntry(k, ok))]
       IN  IF ok /\ api.pc = "racing"
           THEN api' = [settled EXCEPT !.pc = "returned", !.value = Some(k)]
           ELSE api' = settled
    /\ UNCHANGED <<server, session, stop, traceEvents, bottleneck, sel, pc, run, calls, scriptMap, parsed, found>>

\* model.generateContent of an attempt that timed out settles: the race of
\* that attempt is over, so the reactions Promise.race attached to the
\* operation find its promise settled and do nothing.
LateSettle(k, ok) ==
    /\ k \in api.inflight
    /\ api' = [api EXCEPT !.inflight = @ \ {k}, !.late = Append(@, LateEntry(k, ok))]
    /\ UNCHANGED <<server, session, stop, traceEvents, bottleneck, sel, pc, run, calls, scriptMap, parsed, found>>

NextApi ==
    \/ ApiCall
    \/ \E outcome \in {None} \cup { Some(e) : e \in AttemptErrors } : RaceSettled(outcome)
    \/ BackoffElapsed
    \/ \E k \in 1..maxRetries, ok \in BOOLEAN : LateSettle(k, ok)

SpecApi == InitApi /\ [][NextApi]_vars

\* The timers fire: every race settles and every backoff wait ends.
SpecApiTimers ==
    /\ SpecApi
    /\ WF_vars(\E outcome \in {None} \cup { Some(e) : e \in AttemptErrors } : RaceSettled(outcome))
    /\ WF_vars(BackoffElapsed)

----------------------------------------------------------------------------
(* SpecDir: the script directory of one agent under scriptParsed            *)
(* notifications                                                           *)

NotifiedUrls == {"", "app.js", "lib.js"}
NotifiedScriptIds == {"12", "13"}

InitDir ==
    /\ traceEvents = <<>>
    /\ bottleneck = None
    /\ sel = NoSelection
    /\ pc = "start"
    /\ run = NoRun
    /\ calls = <<>>
    /\ scriptMap = EmptyMap
    /\ parsed = <<>>
    /\ found = None
    /\ api = IdleApi
    /\ session = FirstSession
    /\ server = NoRequests
    /\ stop = IdleStop

\* Variant of the listener's write that keeps an existing entry.
MapSetIfAbsent(map, url, scriptId) ==
    [u \in DOMAIN map \cup {url} |-> IF u \in DOMAIN map THEN map[u] ELSE scriptId]

\* this.scriptMap.set(url, scriptId)
MapSet(map, url, scriptId) ==
    [u \in DOMAIN map \cup {url} |-> IF u = url THEN scriptId ELSE map[u]]

\* Variant of the listener that also hands the new scriptId to a run that
\* has looked the URL up.
ScriptParsedRebinding(url, scriptId) ==
    /\ Len(parsed) < MaxParsed
    /\ parsed' = Append(parsed, [url |-> url, scriptId |-> scriptId])
    /\ scriptMap' = IF url # "" THEN MapSet(scriptMap, url, scriptId) ELSE scriptMap
    /\ run' = IF IsSome(found) /\ Val(found).url = url
              THEN [run EXCEPT !.scriptId = Some(scriptId)] ELSE run
    /\ UNCHANGED <<server, session, stop, traceEvents, bottleneck, sel, pc, calls, found, api>>

\* The Debugger.scriptParsed listener registered by launch().
ScriptParsed(url, scriptId) ==
    /\ Len(parsed) < MaxParsed
    /\ parsed' = Append(parsed, [url |-> url, scriptId |-> scriptId])
    /\ scriptMap' = IF url # "" THEN MapSet(scriptMap, url, scriptId) ELSE scriptMap
    /\ UNCHANGED <<server, session, stop, traceEvents, bottleneck, sel, pc, run, calls, found, api>>

\* The directory lookup that getSourceMapUrl(scriptUrl) starts with.
LookupUrl(url) ==
    /\ found' = Some([url |-> url, scriptId |-> Lookup(scriptMap, url)])
    /\ UNCHANGED <<server, session, stop, traceEvents, bottleneck, sel, pc, run, calls, scriptMap, parsed, api>>

\* launch() on the same agent again: a new browser, page and CDP session
\* with a new scriptParsed listener; the scriptMap field, initialised when
\* the agent is constructed, is not assigned.
Launch ==
    /\ session.count < MaxLaunches
    /\ session' = [count |-> session.count + 1, since |-> Len(parsed)]
    /\ UNCHANGED <<server, stop, traceEvents, bottleneck, sel, pc, run, calls, scriptMap, parsed,
                   found, api>>

NextDir ==
    \/ \E url \in NotifiedUrls, scriptId \in NotifiedScriptIds : ScriptParsed(url, scriptId)
    \/ \E url \in ScriptUrls : LookupUrl(url)
    \/ Launch

SpecDir == InitDir /\ [][NextDir]_vars

----------------------------------------------------------------------------
(* SpecLive: a run of analyzeTraceFile on an agent whose page goes on       *)
(* loading scripts: scriptParsed notifications arrive before the run and   *)
(* at each of its awaits                                                   *)

\* Trace files of the run: with a frame in app.js, with a frame in lib.js
\* and without frame.
LiveDocuments ==
    { <<Ev("RunTask", "X", Timeline, 0, 60500, 1, 1, NoArgs),
        Ev("FunctionCall", "X", Timeline, 0, 20500, 1, 1, ArgsLoc("app.js", 9, 4))>>,
      <<Ev("FunctionCall", "X", Timeline, 0, 10000, 1, 1, ArgsLoc("lib.js", 0, 0)),
        Ev("RunTask", "X", Timeline, 0, 60500, 1, 1, NoArgs)>>,
      <<Ev("RunTask", "X", Timeline, 0, 60500, 1, 1, NoArgs),
        Ev("Animation Frame Fired", "X", Timeline, 0, 40000, 1, 1, NoArgs)>> }

InitLive ==
    /\ traceEvents \in LiveDocuments
    /\ bottleneck = None
    /\ sel = NoSelection
    /\ pc = "start"
    /\ run = NoRun
    /\ calls = <<>>
    /\ scriptMap = EmptyMap
    /\ parsed = <<>>
    /\ found = None
    /\ api = IdleApi
    /\ session = FirstSession
    /\ server = NoRequests
    /\ stop = IdleStop

NextLive ==
    \/ \E url \in ScriptUrls, scriptId \in NotifiedScriptIds : ScriptParsed(url, scriptId)
    \/ AnalyzeStart
    \/ \E outcome \in {"error", "noReference", "sourceMapURL", "comment"} :
          GetScriptSourceReply(outcome)
    \/ FetchSettled(None)
    \/ \E outcome \in {"nulls", "hit"}, position \in Positions :
          ConsumerSettled(outcome, position)
    \/ GetAnalysis

SpecLive == InitLive /\ [][NextLive]_vars

----------------------------------------------------------------------------
(* SpecStop: one stopTrace call on a launched agent, the write stream to    *)
(* trace.json and a read of the file after the call resolved               *)

InitStop ==
    /\ traceEvents = <<>>
    /\ bottleneck = None
    /\ sel = NoSelection
    /\ pc = "start"
    /\ run = NoRun
    /\ calls = <<>>
    /\ scriptMap = EmptyMap
    /\ parsed = <<>>
    /\ found = None
    /\ api = IdleApi
    /\ session = FirstSession
    /\ server = NoRequests
    /\ stop = IdleStop

StopFrame ==
    UNCHANGED <<server, session, traceEvents, bottleneck, sel, pc, run, calls, scriptMap, parsed,
                found, api>>

\* stopTrace(): the once-listener for Tracing.tracingComplete is registered
\* and Tracing.end is sent.
StopTrace ==
    /\ stop.pc = "idle"
    /\ stop' = [stop EXCEPT !.pc = "ending", !.endReply = "pending"]
    /\ StopFrame

\* The reply to Tracing.end; a failure rejects the promise executor, which
\* nothing observes.
TracingEndReply(ok) ==
    /\ stop.endReply = "pending"
    /\ stop' = [stop EXCEPT !.endReply = IF ok THEN "ok" ELSE "failed"]
    /\ StopFrame

\* Tracing.tracingComplete arrives. Without stream handle "{}" is written
\* synchronously and the promise resolves; with a handle for a stream of
\* total chunks the write stream is created and the first IO.read is sent.
TracingComplete(total) ==
    /\ stop.pc = "ending"
    /\ stop.endReply # "failed"
    /\ IF total = 0
       THEN stop' = [stop EXCEPT !.pc = "resolved", !.file = [doc |-> "{}", chunks |-> 0]]
       ELSE stop' = [stop EXCEPT !.pc = "reading", !.total = total]
    /\ StopFrame

\* The reply to IO.read: a chunk, handed to writeStream.write, with eof on
\* the last one, or an error that breaks the loop. After the loop IO.close
\* is sent.
IoReadReply(ok) ==
    /\ stop.pc = "reading"
    /\ IF ok
       THEN LET written == stop.written + 1
                eof == written = stop.total
            IN  stop' = [stop EXCEPT !.written = written,
                                     !.pc = IF eof THEN "closing" ELSE "reading",
                                     !.closeSent = eof]
       ELSE stop' = [stop EXCEPT !.pc = "closing", !.closeSent = TRUE]
    /\ StopFrame

\* The reply to IO.close: writeStream.end() and resolve(), in that order
\* and without waiting for the stream; a failure leaves readStream rejected
\* and the promise pending.
IoCloseReply(ok) ==
    /\ stop.pc = "closing"
    /\ IF ok
       THEN stop' = [stop EXCEPT !.pc = "resolved", !.ended = TRUE]
       ELSE stop' = [stop EXCEPT !.pc = "pending"]
    /\ StopFrame

\* The file system opens trace.json for the write stream, truncating it.
FileOpened ==
    /\ stop.pc \in {"reading", "closing", "resolved", "pending"}
    /\ stop.total > 0
    /\ ~stop.opened
    /\ stop' = [stop EXCEPT !.opened = TRUE, !.file = [doc |-> "stream", chunks |-> 0]]
    /\ StopFrame

\* The file system completes the write of the next queued chunk.
ChunkFlushed ==
    /\ stop.opened
    /\ stop.flushed < stop.written
    /\ stop' = [stop EXCEPT !.flushed = @ + 1,
                            !.file = [doc |-> "stream", chunks |-> stop.flushed + 1]]
    /\ StopFrame

\* fs.readFile("trace.json") of an analysis started after stopTrace resolved.
ReadTraceFile ==
    /\ stop.pc = "resolved"
    /\ stop.seen = None
    /\ stop' = [stop EXCEPT !.seen = Some(stop.file)]
    /\ StopFrame

\* The trace documents that a complete stream or an earlier capture holds.
SavedDocuments == SeqsUpTo(RunUniverse, 1)

\* analyzeTraceFile after the read: JSON.parse(traceFile), then the first
\* statement of findWorstBottleneck, traceData.traceEvents.filter(...).
\* A stream of which chunks are missing is not JSON text and JSON.parse
\* raises; "{}" parses to an object without traceEvents.
ParseTraceFile ==
    /\ pc = "start"
    /\ IsSome(stop.seen)
    /\ LET file == Val(stop.seen)
       IN  IF file.doc = "stream" /\ file.chunks < stop.total
           THEN /\ pc' = "failed"
                /\ UNCHANGED traceEvents
           ELSE \E doc \in SavedDocuments :
                   LET events == IF file.doc = "{}" THEN None ELSE Some(doc)
                   IN  IF AccessRaises(events, FALSE)
                       THEN /\ pc' = "failed"
                            /\ UNCHANGED traceEvents
                       ELSE /\ traceEvents' = Val(events)
                            /\ pc' = "loaded"
    /\ UNCHANGED <<server, session, stop, bottleneck, sel, run, calls, scriptMap, parsed, found, api>>

NextStop ==
    \/ StopTrace
    \/ \E ok \in BOOLEAN : TracingEndReply(ok)
    \/ \E total \in 0..MaxChunks : TracingComplete(total)
    \/ \E ok \in BOOLEAN : IoReadReply(ok)
    \/ \E ok \in BOOLEAN : IoCloseReply(ok)
    \/ FileOpened
    \/ ChunkFlushed
    \/ ReadTraceFile
    \/ ParseTraceFile
    \/ Identify

SpecStop == InitStop /\ [][NextStop]_vars

\* Every command that was sent is answered, the event that Tracing.end asks
\* for is delivered, and the file system does its work.
SpecStopReplies ==
    /\ SpecStop
    /\ WF_vars(StopTrace)
    /\ WF_vars(\E ok \in BOOLEAN : TracingEndReply(ok))
    /\ WF_vars(\E total \in 0..MaxChunks : TracingComplete(total))
    /\ WF_vars(\E ok \in BOOLEAN : IoReadReply(ok))
    /\ WF_vars(\E ok \in BOOLEAN : IoCloseReply(ok))
    /\ WF_vars(FileOpened)
    /\ WF_vars(ChunkFlushed)

----------------------------------------------------------------------------
(* SpecServer: the /trace/analyze and /trace/stop routes of createServer    *)
(* under requests that arrive while earlier ones are being handled         *)

InitServer ==
    /\ traceEvents = <<>>
    /\ bottleneck = None
    /\ sel = NoSelection
    /\ pc = "start"
    /\ run = NoRun
    /\ calls = <<>>
    /\ scriptMap = EmptyMap
    /\ parsed = <<>>
    /\ found = None
    /\ api = IdleApi
    /\ session = FirstSession
    /\ server = NoRequests
    /\ stop = IdleStop

ServerFrame ==
    UNCHANGED <<session, stop, traceEvents, bottleneck, sel, pc, run, calls, scriptMap,
                parsed, found, api>>

\* A request: its route and how far its handler has come.
Request(route, at) == [route |-> route, at |-> at]

\* POST /trace/analyze: the handler calls analyzeTraceFile(), which runs up
\* to its first await, fs.readFile("trace.json").
AnalyzeRequest ==
    /\ Len(server) < MaxRequests
    /\ server' = Append(server, Request("analyze", "readFile"))
    /\ ServerFrame

\* fs.readFile of the i-th request settles and its run goes on to its end.
\* The route passes no agent: a record with a stackFrame raises at
\* agent.getSourceMapUrl, as a missing or unparsable file does at
\* readFile or JSON.parse, and the handler answers 500. A summary record
\* goes through getAnalysis without a model call, analyzeTraceFile returns
\* and the handler writes analysis-report.md.
TraceFileRead(i, outcome) ==
    /\ i \in 1..Len(server)
    /\ server[i] = Request("analyze", "readFile")
    /\ server' = [server EXCEPT ![i].at = IF outcome = "summary" THEN "writeFile" ELSE "500"]
    /\ ServerFrame

\* fs.writeFile(reportPath, analysisReport) of the i-th request settles.
ReportWritten(i, ok) ==
    /\ i \in 1..Len(server)
    /\ server[i] = Request("analyze", "writeFile")
    /\ server' = [server EXCEPT ![i].at = IF ok THEN "200" ELSE "500"]
    /\ ServerFrame

\* POST /trace/stop: the handler calls agent.stopTrace() and awaits it.
StopRequest ==
    /\ Len(server) < MaxRequests
    /\ server' = Append(server, Request("stop", "stopTrace"))
    /\ ServerFrame

\* agent.stopTrace() of the i-th request settles.
StopTraceSettled(i, ok) ==
    /\ i \in 1..Len(server)
    /\ server[i] = Request("stop", "stopTrace")
    /\ server' = [server EXCEPT ![i].at = IF ok THEN "200" ELSE "500"]
    /\ ServerFrame

NextServer ==
    \/ AnalyzeRequest
    \/ \E i \in 1..MaxRequests, outcome \in {"missing", "unparsable", "summary", "frame"} :
          TraceFileRead(i, outcome)
    \/ \E i \in 1..MaxRequests, ok \in BOOLEAN : ReportWritten(i, ok)
    \/ StopRequest
    \/ \E i \in 1..MaxRequests, ok \in BOOLEAN : StopTraceSettled(i, ok)

SpecServer == InitServer /\ [][NextServer]_vars

----------------------------------------------------------------------------
(* Claims on findWorstBottleneck *)

Identified == pc = "identified" /\ IsSome(bottleneck)

\* The filter of the claims, written out: ph = "X", dur strictly above
\* 50000 microseconds, cat containing "devtools.timeline".
Qualifies(e) ==
    /\ e.ph = "X"
    /\ e.dur > 50000
    /\ CatIncludesTimeline(e.cat)

IsSummaryOnly(r) ==
    /\ IsSome(r.summary)
    /\ r.eventName = None
    /\ r.duration_ms = None
    /\ r.stackFrame = None

\* C1: a trace in which no event is a complete event of more than 50000
\* microseconds in a devtools.timeline category yields the summary-only
\* record "No long tasks were found", never a record with eventName,
\* duration or stackFrame.
C1_NoLongTaskSummary ==
    (Identified /\ \A i \in 1..Len(traceEvents) : ~Qualifies(traceEvents[i]))
        => /\ IsSummaryOnly(Val(bottleneck))
           /\ Val(Val(bottleneck).summary).text = NoLongTasksText

C1_Witness ==
    /\ Identified
    /\ \A i \in 1..Len(traceEvents) : ~Qualifies(traceEvents[i])
    /\ \E i, j \in 1..Len(traceEvents) :
          /\ traceEvents[i].dur = 50000 /\ traceEvents[i].ph = "X"
          /\ CatIncludesTimeline(traceEvents[i].cat)
          /\ traceEvents[j].dur = 40000
    /\ Val(Val(bottleneck).summary).text = NoLongTasksText

\* C2: the dominant task is a qualifying event of maximum dur, and among
\* the qualifying events of that dur it is the first of the array.
C2_DominantIsFirstMax ==
    Identified =>
        LET te == traceEvents
            q == { i \in 1..Len(te) : Qualifies(te[i]) }
        IN  /\ (q = {}) <=> (sel.task = NoEvent)
            /\ q # {} =>
                 /\ sel.task \in q
                 /\ \A j \in q : te[j].dur <= te[sel.task].dur
                 /\ \A j \in q : j < sel.task => te[j].dur < te[sel.task].dur

C2_Witness ==
    /\ Identified
    /\ sel.task # NoEvent
    /\ \E j \in 1..Len(traceEvents) :
          /\ j > sel.task
          /\ Qualifies(traceEvents[j])
          /\ traceEvents[j].dur = traceEvents[sel.task].dur
          /\ traceEvents[j] # traceEvents[sel.task]
    /\ \E j \in 1..Len(traceEvents) :
          /\ j < sel.task
          /\ Qualifies(traceEvents[j])

\* C3: the nested event selected in step 2 lies fully inside the dominant
\* task, on the same pid and tid.
C3_NestedContained ==
    (Identified /\ sel.child # NoEvent) =>
        LET parent == traceEvents[sel.task]
            child == traceEvents[sel.child]
        IN  /\ parent.ts <= child.ts
            /\ child.ts + child.dur <= parent.ts + parent.dur
            /\ child.pid = parent.pid
            /\ child.tid = parent.tid

TimesThousand(ms) == ms.whole * 1000 + ms.frac

----------------------------------------------------------------------------
(* Claims on the resolution run of analyzeTraceFile *)

Queries == SelectSeq(calls, LAMBDA c : IsSome(c.query))

\* C4: a returned stackFrame has the raw trace line and column plus one, and
\* the first position query of analyzeTraceFile is made with exactly those
\* values: the conversion is applied once.
C4_ConvertedOnce ==
    (IsSome(bottleneck) /\ IsSome(Val(bottleneck).stackFrame)) =>
        LET frame == Val(Val(bottleneck).stackFrame)
            raw == Val(Val(traceEvents[sel.src].args).data)
        IN  /\ sel.src # NoEvent
            /\ frame.lineNumber = Val(raw.lineNumber) + 1
            /\ frame.columnNumber = Val(raw.columnNumber) + 1
            /\ calls # <<>> =>
                  /\ calls[1].line = Val(raw.lineNumber) + 1
                  /\ calls[1].column = Val(raw.columnNumber) + 1
                  /\ IsSome(calls[1].query) =>
                        Val(calls[1].query) = [line |-> Val(raw.lineNumber) + 1,
                                               column |-> Val(raw.columnNumber) + 1]

C4_Witness ==
    /\ IsSome(bottleneck)
    /\ IsSome(Val(bottleneck).stackFrame)
    /\ Val(Val(traceEvents[sel.src].args).data).lineNumber = Some(9)
    /\ Val(Val(traceEvents[sel.src].args).data).columnNumber = Some(4)
    /\ calls # <<>>
    /\ calls[1].query = Some([line |-> 10, column |-> 5])

\* C6: one run of analyzeTraceFile performs at most 6 position queries,
\* whatever the map answers.
C6_AtMostSixQueries ==
    /\ Len(Queries) <= 6
    /\ Len(calls) <= 6

C6_Witness ==
    /\ pc = "summarize"
    /\ Len(Queries) = 6
    /\ IsSome(bottleneck)
    /\ Val(bottleneck).originalSourceLocation = None

\* C7: after an initial call without result the fallback calls are made for
\* the lines 1, 2, ... in ascending order with the column of the stack
\* frame, each only after all earlier calls returned nothing; the first
\* call with a result is the last one and its result is
\* originalSourceLocation.
C7_FallbackOrder ==
    /\ \A n \in 2..Len(calls) :
          /\ calls[n].line = n - 1
          /\ calls[n].column = calls[1].column
          /\ IsSome(calls[n].query) =>
                Val(calls[n].query) = [line |-> n - 1, column |-> calls[1].column]
    /\ \A n \in 1..Len(calls) :
          n < Len(calls) => (calls[n].returned /\ calls[n].result = None)
    /\ (pc = "summarize" /\ calls # <<>>) =>
          /\ calls[Len(calls)].returned
          /\ Val(bottleneck).originalSourceLocation = calls[Len(calls)].result
          /\ calls[Len(calls)].result = None => Len(calls) = 6

C7_Witness ==
    /\ pc = "summarize"
    /\ Len(calls) = 4
    /\ IsSome(calls[1].query)
    /\ IsSome(calls[2].query)
    /\ IsSome(calls[3].query)
    /\ calls[4].query = Some([line |-> 3, column |-> 5])
    /\ IsSome(calls[4].result)
    /\ Val(bottleneck).originalSourceLocation = calls[4].result

----------------------------------------------------------------------------
(* Claims on makeApiCall *)

StartIndexes == { i \in 1..Len(api.log) : api.log[i].e = "start" }

\* The delays of the backoff waits after the k-th start of the operation
\* and before the next start (or the end of the history).
WaitsAfterStart(k) ==
    LET from == CHOOSE i \in StartIndexes : Cardinality({ j \in StartIndexes : j <= i }) = k
        later == { j \in StartIndexes : j > from }
        to == IF later = {} THEN Len(api.log) + 1
              ELSE CHOOSE j \in later : \A l \in later : j <= l
        between == SelectSeq(SubSeq(api.log, from, to - 1), LAMBDA x : x.e = "wait")
    IN  [i \in 1..Len(between) |-> between[i].ms]

EveryAttemptTimedOut ==
    /\ StartIndexes # {}
    /\ \A i \in 1..Len(api.log) :
          api.log[i].e = "settle" => api.log[i].error = Some(Error("API call timed out", None))

\* C8: when every attempt times out the operation is started exactly 3
\* times, with a wait of 2 s between the first and the second attempt and
\* of 4 s between the second and the third, and the call ends by throwing
\* the 'failed after multiple retries' error.
C8_ThreeAttemptsOnTimeouts ==
    /\ EveryAttemptTimedOut => (Cardinality(StartIndexes) <= 3 /\ api.pc # "returned")
    /\ (EveryAttemptTimedOut /\ api.pc = "thrown") =>
          /\ Cardinality(StartIndexes) = 3
          /\ WaitsAfterStart(1) = <<2000>>
          /\ WaitsAfterStart(2) = <<4000>>
          /\ Val(api.error).message = "API call failed after multiple retries."

C8_Witness ==
    /\ EveryAttemptTimedOut
    /\ api.pc = "thrown"
    /\ Cardinality(StartIndexes) = 3
    /\ Cardinality({ i \in 1..Len(api.log) : api.log[i].e = "settle" }) = 3

NeitherTimeoutNorOverload(error) ==
    /\ error.message # "API call timed out"
    /\ error.status # Some(503)
    /\ ~MessageIncludes503(error.message)

\* C9: an attempt that fails with an error that is neither the timeout nor
\* a 503/overloaded one ends the call at once with that same error: it is
\* the last entry of the history, no wait and no further start follow it.
C9_OtherErrorsPropagate ==
    \A i \in 1..Len(api.log) :
        (/\ api.log[i].e = "settle"
         /\ IsSome(api.log[i].error)
         /\ NeitherTimeoutNorOverload(Val(api.log[i].error)))
            => /\ i = Len(api.log)
               /\ api.pc = "thrown"
               /\ api.error = api.log[i].error

C9_Witness ==
    /\ api.pc = "thrown"
    /\ Cardinality(StartIndexes) = 3
    /\ api.log[Len(api.log)].e = "settle"
    /\ api.error = Some(Error("[400 Bad Request] API key not valid", Some(400)))

----------------------------------------------------------------------------
(* Claims on the script directory *)

\* The scriptId of the most recent notification that carried url.
MostRecent(url) ==
    LET at == { i \in 1..Len(parsed) : parsed[i].url = url }
    IN  IF at = {} THEN None
        ELSE Some(parsed[CHOOSE i \in at : \A j \in at : j <= i].scriptId)

DirectoryIsLastWrite ==
    \A url \in NotifiedUrls \ {""} : Lookup(scriptMap, url) = MostRecent(url)

StaysFound ==
    \A url \in NotifiedUrls :
        IsSome(Lookup(scriptMap, url)) => IsSome(Lookup(scriptMap', url))

\* C10: the lookup of a URL gives the scriptId of the most recent
\* scriptParsed notification with that non-empty URL, and a URL that is
\* found stays found.
C10_LastWriteWins == [] DirectoryIsLastWrite /\ [][StaysFound]_vars

C10_Witness ==
    /\ Len(parsed) >= 3
    /\ parsed[1] = [url |-> "app.js", scriptId |-> "12"]
    /\ parsed[2].url = ""
    /\ parsed[3] = [url |-> "app.js", scriptId |-> "13"]
    /\ found = Some([url |-> "app.js", scriptId |-> Some("13")])

----------------------------------------------------------------------------
(* Claims on the run around the resolution: directory miss, consumer        *)
(* release, hand-over to the summarizer                                    *)

\* C11: getSourceMapUrl for a URL without directory entry returns null
\* without raising and without sending Debugger.getScriptSource, and
\* analyzeTraceFile goes on to getAnalysis with no originalSourceLocation.
C11_MissGoesToSummary ==
    (IsSome(found) /\ Val(found).url \notin DOMAIN scriptMap) =>
        /\ Val(found).scriptId = None
        /\ run.sent = <<>>
        /\ run.fullSourceMapUrl = None
        /\ calls = <<>>
        /\ Val(bottleneck).originalSourceLocation = None
        /\ pc \in {"summarize", "analysis", "done"}
        /\ pc = "summarize" => ENABLED GetAnalysis
        /\ pc \in {"analysis", "done"} => run.handed = bottleneck

C11_Witness ==
    /\ IsSome(found)
    /\ Val(found).url = "lib.js"
    /\ "lib.js" \notin DOMAIN scriptMap
    /\ "app.js" \in DOMAIN scriptMap
    /\ pc = "analysis"
    /\ run.sent = <<>>
    /\ IsSome(run.handed)
    /\ Val(run.handed).originalSourceLocation = None

\* C12: every SourceMapConsumer created by resolveSourceLocation has been
\* destroyed when the call returns.
C12_ConsumerDestroyed ==
    \A n \in 1..Len(calls) : calls[n].returned => calls[n].consumer # "live"

\* C13: a resolved record keeps its eventName and duration_ms and reaches
\* getAnalysis whatever the resolution gives: the run never ends before the
\* hand-over and the record handed over carries both values.
C13_ResolvedRecordReported ==
    (IsSome(bottleneck) /\ sel.src # NoEvent) =>
        LET b == Val(bottleneck)
            task == traceEvents[sel.task]
            child == traceEvents[sel.child]
        IN  /\ b.summary = None
            /\ b.eventName = Some(<<task.name, " > ", child.name>>)
            /\ IsSome(b.duration_ms)
            /\ TimesThousand(Val(b.duration_ms)) = child.dur
            /\ pc \in {"getScriptSource", "fetch", "consumer", "summarize", "analysis"}
            /\ pc = "summarize" => ENABLED GetAnalysis
            /\ pc = "analysis" => (run.handed = bottleneck /\ api.pc = "racing")

C13_Witness ==
    /\ pc = "analysis"
    /\ sel.src # NoEvent
    /\ Len(calls) = 6
    /\ \A n \in 1..6 : calls[n].result = None
    /\ \E n \in 1..6 : ~calls[n].fetched
    /\ \E n \in 1..6 : IsSome(calls[n].query)
    /\ IsSome(Val(run.handed).eventName)
    /\ Val(run.handed).originalSourceLocation = None

----------------------------------------------------------------------------
(* Claims on stopTrace and on launch *)

\* C14: once stopTrace has resolved after a stream was delivered, every
\* chunk read from the stream is in trace.json, so a read of the file made
\* after the resolution gets the complete trace.
C14_TraceSavedWhenResolved ==
    (stop.pc = "resolved" /\ stop.total > 0) =>
        /\ stop.file = [doc |-> "stream", chunks |-> stop.written]
        /\ IsSome(stop.seen) => Val(stop.seen) = [doc |-> "stream", chunks |-> stop.written]

\* C15: the directory of a new session holds no entry registered during an
\* earlier session: every URL in it was notified since the last launch().
C15_FreshDirectoryPerSession ==
    \A url \in DOMAIN scriptMap :
        \E i \in (session.since + 1)..Len(parsed) : parsed[i].url = url

----------------------------------------------------------------------------
(* Claims on step 2 and on the stack extraction *)

PriorityNames == {"Animation Frame Fired", "RunMicrotasks", "FunctionCall"}

\* A priority-named event that starts inside the window of the task, on the
\* task's pid and tid.
StartsInside(te, task, j) ==
    /\ te[j].name \in PriorityNames
    /\ te[j].ts >= te[task].ts
    /\ te[j].ts < te[task].ts + te[task].dur
    /\ te[j].pid = te[task].pid
    /\ te[j].tid = te[task].tid

\* C16: the nested event selected in step 2 is never the dominant task.
C16_NestedIsNotDominant ==
    (Identified /\ sel.child # NoEvent) => sel.child # sel.task

\* C17: the selected nested event has a priority-list name and no other
\* priority-named event that starts inside the dominant task's window on
\* the same pid/tid has a greater dur.
C17_NestedIsLongestCandidate ==
    (Identified /\ sel.child # NoEvent) =>
        /\ StartsInside(traceEvents, sel.task, sel.child)
        /\ \A j \in 1..Len(traceEvents) :
              StartsInside(traceEvents, sel.task, j) =>
                  traceEvents[j].dur <= traceEvents[sel.child].dur

C17_Witness ==
    /\ Identified
    /\ sel.child # NoEvent
    /\ sel.child # sel.task
    /\ traceEvents[sel.child].name = "FunctionCall"
    /\ \E j \in 1..Len(traceEvents) :
          /\ StartsInside(traceEvents, sel.task, j)
          /\ traceEvents[j].name = "Animation Frame Fired"
          /\ traceEvents[j].dur > 0
          /\ traceEvents[j].dur < traceEvents[sel.child].dur

\* C18: with a dominant task, the 'no specific child events' summary is
\* returned exactly when no priority-named event starts inside its window
\* on the same pid/tid.
C18_NoChildSummaryIffNoCandidate ==
    (Identified /\ sel.task # NoEvent) =>
        LET r == Val(bottleneck)
            isNoChild == IsSome(r.summary) /\ Val(r.summary).text = NoChildEventsText
        IN  /\ isNoChild <=>
                  ~\E j \in 1..Len(traceEvents) : StartsInside(traceEvents, sel.task, j)
            /\ isNoChild =>
                  /\ Val(r.summary).ms = Some(Ms(traceEvents[sel.task].dur))
                  /\ Val(r.summary).names = <<"Animation Frame Fired", "RunMicrotasks",
                                              "FunctionCall">>

\* C19: a selected nested event that carries url, lineNumber and
\* columnNumber itself gives the stack frame, whatever its name.
C19_OwnLocationUsed ==
    (Identified /\ sel.child # NoEvent /\ HasLocation(DataOf(traceEvents[sel.child]))) =>
        LET data == Val(DataOf(traceEvents[sel.child]))
        IN  /\ sel.src = sel.child
            /\ IsSome(Val(bottleneck).stackFrame)
            /\ Val(Val(bottleneck).stackFrame).url = Val(data.url)
            /\ Val(Val(bottleneck).stackFrame).lineNumber = Val(data.lineNumber) + 1
            /\ Val(Val(bottleneck).stackFrame).columnNumber = Val(data.columnNumber) + 1

\* The FunctionCall events inside the selected nested event: same pid/tid,
\* within its time window, the event itself excluded.
NestedFunctionCalls(te, parent) ==
    { i \in 1..Len(te) :
        /\ i # parent
        /\ te[i].name = "FunctionCall"
        /\ te[i].ts >= te[parent].ts
        /\ te[i].ts + te[i].dur <= te[parent].ts + te[parent].dur
        /\ te[i].pid = te[parent].pid
        /\ te[i].tid = te[parent].tid }

\* The longest of them, the first in the array among equals.
LongestOf(te, inside) ==
    CHOOSE i \in inside :
        \A j \in inside : te[j].dur < te[i].dur \/ (te[j].dur = te[i].dur /\ i <= j)

\* C20: for a selected nested event without a location of its own the frame
\* comes from the longest nested FunctionCall and from no other; when that
\* one lacks url, lineNumber or columnNumber there is no frame, also when a
\* shorter nested FunctionCall has a complete location.
C20_OnlyLongestFunctionCall ==
    (Identified /\ sel.child # NoEvent /\ ~HasLocation(DataOf(traceEvents[sel.child]))) =>
        LET te == traceEvents
            inside == NestedFunctionCalls(te, sel.child)
        IN  /\ sel.src # NoEvent => (inside # {} /\ sel.src = LongestOf(te, inside))
            /\ (inside # {} /\ ~HasLocation(DataOf(te[LongestOf(te, inside)]))) =>
                  /\ sel.src = NoEvent
                  /\ Val(bottleneck).stackFrame = None
            /\ (inside # {} /\ HasLocation(DataOf(te[LongestOf(te, inside)]))
                            /\ te[LongestOf(te, inside)].dur > 0) =>
                  /\ sel.src = LongestOf(te, inside)
                  /\ IsSome(Val(bottleneck).stackFrame)

C20_Witness ==
    /\ Identified
    /\ sel.child # NoEvent
    /\ sel.child # sel.task
    /\ DataOf(traceEvents[sel.child]) = None
    /\ LET inside == NestedFunctionCalls(traceEvents, sel.child)
       IN  /\ inside # {}
           /\ ~HasLocation(DataOf(traceEvents[LongestOf(traceEvents, inside)]))
           /\ \E i \in inside : HasLocation(DataOf(traceEvents[i])) /\ traceEvents[i].dur > 0
    /\ Val(bottleneck).stackFrame = None
    /\ Val(Val(bottleneck).summary).text = NoStackFrameText

----------------------------------------------------------------------------
(* Claims on what a run does with its record and with a failing fetch *)

\* C21: a run whose record has no stackFrame makes no directory lookup, sends
\* no Debugger.getScriptSource, fetches no source map and queries no position.
C21_NoFrameNoResolution ==
    (IsSome(bottleneck) /\ Val(bottleneck).stackFrame = None) =>
        /\ found = None
        /\ run.scriptId = None
        /\ run.sent = <<>>
        /\ run.fullSourceMapUrl = None
        /\ calls = <<>>
        /\ pc \in {"summarize", "done"}

C21_Witness ==
    /\ pc = "done"
    /\ sel.child # NoEvent
    /\ Val(bottleneck).stackFrame = None
    /\ Val(Val(bottleneck).summary).text = NoStackFrameText
    /\ scriptMap # EmptyMap
    /\ found = None
    /\ calls = <<>>

\* A call whose fetch was rejected with an error that is neither a timeout
\* nor a 503, or whose document no SourceMapConsumer could be made of.
PermanentFailure(c) ==
    /\ c.returned
    /\ \/ IsSome(c.fetchError) /\ NeitherTimeoutNorOverload(Val(c.fetchError))
       \/ c.fetched /\ c.consumer = "none" /\ c.query = None

\* C22: after a permanent fetch failure or a malformed document the map is
\* not fetched again in that run, the location is absent and the run goes
\* on to getAnalysis.
C22_PermanentFailureFetchedOnce ==
    (calls # <<>> /\ PermanentFailure(calls[1])) =>
        /\ Len(calls) = 1
        /\ calls[1].result = None
        /\ Val(bottleneck).originalSourceLocation = None
        /\ pc \in {"summarize", "analysis"}

\* C23: a fallback line is queried only after the original position was
\* queried on a fetched map and gave nothing, and a location found on a
\* fallback line is reported only then.
C23_FallbackOnlyAfterOriginalQuery ==
    \A n \in 2..Len(calls) :
        (IsSome(calls[n].query) \/ IsSome(calls[n].result)) =>
            /\ calls[1].fetched
            /\ calls[1].query = Some([line |-> calls[1].line, column |-> calls[1].column])
            /\ calls[1].result = None

\* C24: a fetch rejected with a timeout or a 503 is retried by the wrapper
\* of the model call: the wrapper has started the fetch and has logged a
\* backoff wait of 2^attempt * 1000 ms for the failure.
C24_FetchThroughWrapper ==
    \A n \in 1..Len(calls) :
        (calls[n].returned /\ IsSome(calls[n].fetchError)
                           /\ IsRetryable(Val(calls[n].fetchError))) =>
            /\ \E i \in 1..Len(api.log) : api.log[i].e = "start"
            /\ \E i \in 1..Len(api.log) :
                  /\ api.log[i] = Settled(calls[n].fetchError)
                  /\ i < Len(api.log)
                  /\ api.log[i + 1].e = "wait"
                  /\ api.log[i + 1].ms \in { BackoffDelay(k) : k \in 1..maxRetries }

\* The run has left the resolution: getAnalysis is next or was called.
Resolved == pc \in {"summarize", "analysis", "done"}

\* C25: on a trace file whose events lack optional fields neither
\* findWorstBottleneck nor the resolution raises: a record without
\* stackFrame is a summary, and a run without directory entry, without
\* source-map reference or without query hit ends with no location.
C25_AbsenceNeverRaises ==
    /\ pc # "failed"
    /\ pc # "start" =>
          /\ IsSome(bottleneck)
          /\ Val(bottleneck).stackFrame = None => IsSome(Val(bottleneck).summary)
    /\ (Resolved /\ IsSome(Val(bottleneck).stackFrame)) =>
          /\ IsSome(found)
          /\ (\/ Val(found).scriptId = None
              \/ run.fullSourceMapUrl = None
              \/ \A n \in 1..Len(calls) : calls[n].result = None)
                => Val(bottleneck).originalSourceLocation = None

C25_Witness ==
    /\ pc = "analysis"
    /\ \E i \in 1..Len(traceEvents) : traceEvents[i].args = None
    /\ Val(bottleneck).category = Some(None)
    /\ run.sent = <<"12">>
    /\ run.fullSourceMapUrl = None
    /\ Val(run.handed).originalSourceLocation = None

----------------------------------------------------------------------------
(* Claims on the analysis of a saved trace *)

\* C26: an analysis that reads the "{}" written by stopTrace without stream
\* handle does not raise and ends with the 'No long tasks were found'
\* summary.
C26_EmptyTraceGivesSummary ==
    (IsSome(stop.seen) /\ Val(stop.seen).doc = "{}" /\ pc # "start") =>
        /\ pc # "failed"
        /\ pc = "identified" =>
              /\ IsSome(Val(bottleneck).summary)
              /\ Val(Val(bottleneck).summary).text = NoLongTasksText

----------------------------------------------------------------------------
(* Claims on the order of the events *)

\* An event that one of the reduce calls can compare: one that passes the
\* long-task filter or carries a priority-list name.
IsCandidate(e) == Qualifies(e) \/ e.name \in PriorityNames

DistinctCandidateDurs(te) ==
    \A i, j \in 1..Len(te) :
        (i # j /\ IsCandidate(te[i]) /\ IsCandidate(te[j])) => te[i].dur # te[j].dur

Permuted(te, p) == [i \in 1..Len(te) |-> te[p[i]]]

EventAt(te, i) == IF i = NoEvent THEN None ELSE Some(te[i])

\* C27: when no two candidate events have equal dur, every permutation of
\* traceEvents gives the same record, the same dominant task, the same
\* nested event and the same event for the stack frame.
C27_OrderIndependent ==
    (Identified /\ DistinctCandidateDurs(traceEvents)) =>
        \A p \in Permutations(1..Len(traceEvents)) :
            LET te == Permuted(traceEvents, p)
                s == Selection(te)
            IN  /\ findWorstBottleneck(te) = Val(bottleneck)
                /\ EventAt(te, s.task) = EventAt(traceEvents, sel.task)
                /\ EventAt(te, s.child) = EventAt(traceEvents, sel.child)
                /\ EventAt(te, s.src) = EventAt(traceEvents, sel.src)

C27_Witness ==
    /\ Identified
    /\ Len(traceEvents) = 3
    /\ DistinctCandidateDurs(traceEvents)
    /\ sel.task = 3
    /\ sel.child = 1
    /\ sel.src = 2
    /\ IsSome(Val(bottleneck).stackFrame)

----------------------------------------------------------------------------
(* Claims on the attempts, the waits and the late operations of makeApiCall *)

SettleIndexes == { i \in 1..Len(api.log) : api.log[i].e = "settle" }

ApiEnded == api.pc \in {"returned", "thrown"}

\* At most three starts; a returned call ends with the success of its
\* last attempt, every earlier attempt failed, and the value is the one of
\* that attempt's operation.
BoundedAttempts ==
    /\ Cardinality(StartIndexes) <= 3
    /\ api.pc = "returned" =>
          /\ api.log[Len(api.log)] = Settled(None)
          /\ \A i \in SettleIndexes : i < Len(api.log) => IsSome(api.log[i].error)
          /\ api.value = Some(Cardinality(StartIndexes))
          /\ api.error = None
    /\ api.pc # "returned" => api.value = None
    /\ \A i \in SettleIndexes :
          api.log[i].error = None => (i = Len(api.log) /\ api.pc = "returned")

\* C28: whatever the attempts end with, the operation is started at most 3
\* times, the call returns the value of the first attempt that succeeds
\* before its timer, and with timers that fire the call ends.
C28_BoundedAndTerminates ==
    /\ [] BoundedAttempts
    /\ (api.pc # "idle") ~> ApiEnded

C28_Witness ==
    /\ api.pc = "returned"
    /\ api.value = Some(3)
    /\ Cardinality(StartIndexes) = 3
    /\ api.log[2] = Settled(Some(Error("API call timed out", None)))
    /\ \E i \in SettleIndexes : api.log[i].error = Some(Error("Service Unavailable", Some(503)))

\* The number of retryable failures among the first i entries of the history.
RetryableUpTo(i) ==
    Cardinality({ j \in SettleIndexes :
                    j <= i /\ IsSome(api.log[j].error) /\ ~NeitherTimeoutNorOverload(Val(api.log[j].error)) })

WaitsOfCall ==
    LET waits == SelectSeq(api.log, LAMBDA x : x.e = "wait")
    IN  [i \in 1..Len(waits) |-> waits[i].ms]

ExhaustedMessage == "API call failed after multiple retries."

EveryFailureWaits ==
    /\ \A i \in SettleIndexes :
          (IsSome(api.log[i].error) /\ ~NeitherTimeoutNorOverload(Val(api.log[i].error))) =>
              /\ i < Len(api.log)
              /\ api.log[i + 1].e = "wait"
              /\ RetryableUpTo(i) = 1 => api.log[i + 1].ms = 2000
              /\ RetryableUpTo(i) = 2 => api.log[i + 1].ms = 4000
              /\ RetryableUpTo(i) = 3 => api.log[i + 1].ms = 8000
              /\ RetryableUpTo(i) <= 3
    /\ (api.pc = "thrown" /\ api.error = Some(Error(ExhaustedMessage, None))) =>
          /\ WaitsOfCall = <<2000, 4000, 8000>>
          /\ api.log[Len(api.log)].e = "wait"

ThrownAfterLastWait ==
    (api.pc # "thrown" /\ api'.pc = "thrown" /\ api'.error = Some(Error(ExhaustedMessage, None))) =>
        /\ api.pc = "waiting"
        /\ api.log[Len(api.log)] = Waited(8000)
        /\ api'.log = api.log

\* C29: the k-th retryable failure is followed by a wait of 2^k * 1000 ms,
\* the last one too: an exhausted call has waited 2 s, 4 s and 8 s, and it
\* throws its final error when the 8 s wait is over.
C29_WaitAfterEveryFailure ==
    /\ [] EveryFailureWaits
    /\ [][ThrownAfterLastWait]_vars

C29_Witness ==
    /\ api.pc = "thrown"
    /\ api.error = Some(Error(ExhaustedMessage, None))
    /\ WaitsOfCall = <<2000, 4000, 8000>>
    /\ Cardinality(StartIndexes) = 3

\* A step in which an operation of a timed-out attempt settles.
IsLateStep == api'.late # api.late

LateChangesNothing ==
    IsLateStep =>
        /\ api'.pc = api.pc
        /\ api'.attempts = api.attempts
        /\ api'.value = api.value
        /\ api'.error = api.error
        /\ api'.log = api.log

TimerDecides ==
    /\ \A k \in api.inflight :
          /\ k <= Cardinality(SettleIndexes)
          /\ \E i \in SettleIndexes :
                /\ Cardinality({ j \in SettleIndexes : j <= i }) = k
                /\ api.log[i].error = Some(Error("API call timed out", None))
    /\ IsSome(api.value) => Val(api.value) \notin api.inflight
    /\ \A n \in 1..Len(api.late) :
          /\ api.late[n].attempt <= api.late[n].attempts
          /\ IsSome(api.value) => Val(api.value) # api.late[n].attempt

\* C30: an attempt that its timer decided leaves its operation pending; when
\* that operation settles later, during a later attempt, a wait or after
\* the end, the call's position, attempts counter, value and error stay as
\* they are, and the value returned is never the one of such an operation.
C30_LateOperationIgnored ==
    /\ [] TimerDecides
    /\ [][LateChangesNothing]_vars

C30_Witness ==
    /\ api.pc = "returned"
    /\ api.value = Some(3)
    /\ Len(api.late) = 2
    /\ api.late[1] = [attempt |-> 1, ok |-> TRUE, during |-> "racing", attempts |-> 1]
    /\ api.late[2] = [attempt |-> 2, ok |-> FALSE, during |-> "waiting", attempts |-> 2]

----------------------------------------------------------------------------
(* Claims on the server and on the end of stopTrace *)

\* The requests whose call of analyzeTraceFile has neither returned nor
\* raised.
RunsInProgress ==
    { i \in 1..Len(server) : server[i].route = "analyze" /\ server[i].at = "readFile" }

\* C31: whatever the order of the requests, at most one analyzeTraceFile
\* run is in progress at a time.
C31_OneRunAtATime == Cardinality(RunsInProgress) <= 1

\* C32: a stopTrace call settles in the end, also when Tracing.end, an
\* IO.read or IO.close fails, and after a failed IO.read IO.close is sent.
C32_StopTraceSettles ==
    /\ [] ((stop.pc = "closing" /\ stop.written < stop.total) => stop.closeSent)
    /\ (stop.pc = "ending") ~> (stop.pc = "resolved")

----------------------------------------------------------------------------
(* Claims on a run beside the scriptParsed listener and on getAnalysis *)

TraceUntouched == traceEvents' = traceEvents

\* A step that changes the directory is a step of the listener: it appends
\* a notification, sets the entry of that notification's URL and leaves the
\* run where it is.
DirectoryWrittenByListener ==
    scriptMap' # scriptMap =>
        /\ Len(parsed') = Len(parsed) + 1
        /\ LET last == parsed'[Len(parsed')]
           IN  /\ last.url # ""
               /\ DOMAIN scriptMap' = DOMAIN scriptMap \cup {last.url}
               /\ scriptMap'[last.url] = last.scriptId
               /\ \A u \in DOMAIN scriptMap \ {last.url} : scriptMap'[u] = scriptMap[u]
        /\ pc' = pc
        /\ calls' = calls
        /\ run' = run

\* C33: no step changes the trace document, and the directory is written
\* by the scriptParsed listener only, never by the run.
C33_ReadOnlyForTheEngine == [][TraceUntouched /\ DirectoryWrittenByListener]_vars

C33_Witness ==
    /\ pc = "analysis"
    /\ Len(calls) = 2
    /\ IsSome(Val(bottleneck).originalSourceLocation)
    /\ Len(parsed) = 1
    /\ DOMAIN scriptMap = {"lib.js"}
    /\ traceEvents[1].name = "FunctionCall"

\* The scriptId of the trace's own stack frame, which the run reads from the
\* record together with the URL.
FrameScriptId == Val(Val(bottleneck).stackFrame).scriptId

SentFromDirectory ==
    /\ IsSome(run.scriptId) => Val(run.scriptId) \in NotifiedScriptIds
    /\ run.sent # <<>> =>
          /\ IsSome(run.scriptId)
          /\ run.sent = <<Val(run.scriptId)>>
          /\ FrameScriptId # Some(run.sent[1])

\* The lookup step: what is sent is the scriptId of the most recent
\* notification for the frame's URL among those delivered so far.
LookupTakesCurrentEntry ==
    (pc = "start" /\ pc' # "start" /\ IsSome(found')) =>
        LET current == MostRecent(Val(found').url)
        IN  /\ run'.scriptId = current
            /\ run'.sent = IF IsSome(current) THEN <<Val(current)>> ELSE <<>>

LaterNotificationsIgnored ==
    pc # "start" => (run'.scriptId = run.scriptId /\ run'.sent = run.sent)

\* C35: Debugger.getScriptSource is sent with the scriptId that the
\* directory holds for the frame's URL when the run looks it up, not with
\* the one of the trace, and a notification for that URL that arrives later
\* does not change the scriptId of the run.
C35_ScriptIdOfLookupTime ==
    /\ [] SentFromDirectory
    /\ [][LookupTakesCurrentEntry /\ LaterNotificationsIgnored]_vars

C35_Witness ==
    /\ pc = "consumer"
    /\ run.sent = <<"12">>
    /\ Lookup(scriptMap, "app.js") = Some("13")
    /\ FrameScriptId = Some("7")
    /\ Len(parsed) = 3
    /\ parsed[1] = [url |-> "app.js", scriptId |-> "13"]
    /\ parsed[2] = [url |-> "app.js", scriptId |-> "12"]
    /\ parsed[3] = [url |-> "app.js", scriptId |-> "13"]

----------------------------------------------------------------------------
(* Claim on the records getAnalysis answers without the model *)

\* The record of the run carries a summary.
SummaryRecord == IsSome(bottleneck) /\ IsSome(Val(bottleneck).summary)

\* C34: a record with a summary, the one with details of a nested event
\* included, is answered with 'Analysis skipped: <summary>' and the model is
\* never called for it; the model is called only for a record handed over
\* without a summary.
C34_SummarySkipsTheModel ==
    /\ SummaryRecord => api = IdleApi
    /\ (SummaryRecord /\ IsSome(run.handed)) =>
           /\ run.handed = bottleneck
           /\ run.report = Some(<<"Analysis skipped: ", Val(Val(bottleneck).summary)>>)
           /\ pc = "done"
    /\ api # IdleApi =>
           /\ IsSome(run.handed)
           /\ Val(run.handed).summary = None
           /\ run.report = None

C34_Witness ==
    /\ pc = "done"
    /\ SummaryRecord
    /\ IsSome(Val(bottleneck).details)
    /\ Val(Val(bottleneck).details).bottleneck_duration_ms = Some(Ms(40000))
    /\ run.report = Some(<<"Analysis skipped: ",
                           Summary(NoStackFrameText, None, <<>>,
                                   Some("Animation Frame Fired"))>>)
    /\ api = IdleApi

----------------------------------------------------------------------------
(* Claim on equal durations in step 2 *)

\* Position of a priority name in the order the claim states.
PriorityRank(name) ==
    CASE name = "Animation Frame Fired" -> 1
      [] name = "RunMicrotasks" -> 2
      [] name = "FunctionCall" -> 3

\* C36: among the priority-named events inside the dominant task that are
\* as long as the selected one, the selected one has the earliest name of
\* the priority list and, among those of its name, the first array position.
C36_EarlierNameWinsTies ==
    (Identified /\ sel.child # NoEvent) =>
        \A j \in 1..Len(traceEvents) :
            ( /\ j # sel.child
              /\ StartsInside(traceEvents, sel.task, j)
              /\ traceEvents[j].dur = traceEvents[sel.child].dur ) =>
                \/ PriorityRank(traceEvents[sel.child].name) < PriorityRank(traceEvents[j].name)
                \/ /\ traceEvents[sel.child].name = traceEvents[j].name
                   /\ sel.child < j

C36_Witness ==
    /\ Identified
    /\ sel.child # NoEvent
    /\ sel.child = Len(traceEvents)
    /\ traceEvents[sel.child].name = "Animation Frame Fired"
    /\ traceEvents[sel.child].dur = 20500
    /\ \E j \in 1..(sel.child - 1) :
          /\ StartsInside(traceEvents, sel.task, j)
          /\ traceEvents[j].name = "FunctionCall"
          /\ traceEvents[j].dur = 20500

====
